---- MODULE Spec2Model ----
(***************************************************************************)
(* A model of the blog scraper (scraper.py): the URL scope utility, the    *)
(* retrying transport client, the discovery components (sitemaps, feeds,   *)
(* on-page crawl), the extraction chain and the scrape orchestrator.       *)
(*                                                                         *)
(* Each component has its own specification over one shared set of         *)
(* variables; the variables a specification does not use stay at their     *)
(* idle values.                                                            *)
(*   SpecHttp      HttpClient._request                                     *)
(*   SpecChain     fetch_and_extract, and fetch_post of substack_test.py   *)
(*   SpecDiscovery expand_sitemaps, extract_feed_entries, onpage_discovery *)
(*   SpecScrape    gather_discovery_urls and scrape                        *)
(*   SpecWorkers   the worker and reporting tasks of scrape, scheduled     *)
(*   SpecSitemaps  expand_sitemaps on deeply nested sitemaps, scheduled    *)
(*   SpecCrawl     onpage_discovery for one seed, scheduled                *)
(*   SpecUtil      guess_content_type, normalize_url, within_seed_scope,   *)
(*                 and expand_sitemaps as a function of its inputs         *)
(*   SpecSitemapPages  expand_sitemaps on pages named like sitemaps        *)
(***************************************************************************)
EXTENDS Integers, Sequences, FiniteSets, TLC

VARIABLES
    \* ---- HttpClient._request
    rq_pc,        \* "idle", "attempt", "sleep", "returned"
    rq_url,       \* "wellformed" or "malformed": what the transport makes of the URL
    rq_attempt,   \* the loop variable of `for attempt in range(3)`
    rq_log,       \* one entry per request sent: [kind, code], the kind being
                  \* "status", "network" or "rejected"
    rq_delays,    \* the delays slept so far, in tenths of a second
    rq_result,    \* "pending", "response" or "none"
    \* ---- fetch_and_extract
    fe_pc,        \* "start", "trafilatura", "readability", "fallback", "gate", "done"
    fe_page,      \* the fetched page: what each strategy makes of it
    fe_res,       \* the local `res`: NoRes or [title, len, by]
    fe_ran,       \* the strategies run so far, in order
    fe_out,       \* "pending", NoItem or the item returned
    \* ---- gather_discovery_urls and scrape
    sc_pc,        \* where scrape is
    sc_args,      \* [seed, max_pages, concurrency, bar]: the arguments of the run
    sc_raw,       \* the links the sources have named so far, as they were written
                  \* (kept while gather_discovery_urls runs)
    sc_all_urls,  \* all_urls of gather_discovery_urls (a local: empty once it returns)
    sc_ncand,     \* len(candidate_urls): how many candidates discovery returned
    sc_onpage,    \* how many times onpage_discovery has been run
    sc_list,      \* candidate_list
    sc_worker,    \* the state of the worker task of each list position
    sc_sem,       \* the value of the semaphore
    sc_results,   \* results, in completion order
    sc_progress,  \* progress["done"]
    sc_bar,       \* the reporting task: [pc, shown]
    sc_items,     \* the items of the Corpus returned
    sc_closed,    \* how many times client.close() has run
    sc_outcome,   \* "running", "returned" or "raised"
    sc_misuse,    \* a task has issued a fetch on the closed client
    \* ---- the discovery component under study, and its seed_url
    dz_comp,      \* "none", "sitemaps", "feed" or "onpage"
    dz_seed,      \* seed_url
    \* ---- expand_sitemaps / _expand_single_sitemap
    sm_pc,        \* "idle", "loop", "returned" or "raised"
    sm_todo,      \* the sitemap_urls the loop of expand_sitemaps has not reached
    sm_visited,   \* visited
    sm_acc,       \* acc (urls of expand_sitemaps)
    sm_stack,     \* the calls in progress: [depth, left]
    sm_locs,      \* every <loc> value line 178 has tested
    sm_fetched,   \* the fetches of line 169: [url, nth], the nth of that URL
    sm_deepest,   \* the greatest depth of a call that fetched (-1: none has)
    sm_guarded,   \* why calls have returned at line 166: "visited", "depth"
    \* ---- extract_feed_entries
    fd_pc,        \* "idle", "start", "entries" or "returned"
    fd_entries,   \* the links of parsed.entries still to process
    fd_urls,      \* urls
    fd_links,     \* every entry link the loop has processed
    \* ---- onpage_discovery
    op_pc,        \* "idle", "loop", "links", "returned" or "raised"
    op_max_pages, \* max_pages
    op_to_visit,  \* to_visit
    op_seen,      \* seen
    op_collected, \* collected
    op_links,     \* the links of the page in hand still to process
    op_order,     \* the URLs put on to_visit, in the order each first was
    op_trav,      \* the fetches of line 287, in order
    op_followups, \* the fetches of line 310: [link, article]
    \* ---- one call of a utility function
    ut_pc,        \* "idle", "call" or "done"
    ut_fn,        \* the function called
    ut_in,        \* its arguments
    ut_out        \* what it returned, call after call

httpVars == <<rq_pc, rq_url, rq_attempt, rq_log, rq_delays, rq_result>>
chainVars == <<fe_pc, fe_page, fe_res, fe_ran, fe_out>>
scrapeVars ==
    <<sc_pc, sc_args, sc_raw, sc_all_urls, sc_ncand, sc_onpage, sc_list, sc_worker, sc_sem,
      sc_results, sc_progress, sc_bar, sc_items, sc_closed, sc_outcome, sc_misuse>>
smVars == <<sm_pc, sm_todo, sm_visited, sm_acc, sm_stack, sm_locs, sm_fetched, sm_deepest, sm_guarded>>
fdVars == <<fd_pc, fd_entries, fd_urls, fd_links>>
opVars ==
    <<op_pc, op_max_pages, op_to_visit, op_seen, op_collected, op_links, op_order, op_trav,
      op_followups>>
discVars == <<dz_comp, dz_seed, smVars, fdVars, opVars>>
utilVars == <<ut_pc, ut_fn, ut_in, ut_out>>
vars == <<httpVars, chainVars, scrapeVars, discVars, utilVars>>

\* What the actions of one component leave alone.
notHttp == <<chainVars, scrapeVars, discVars, utilVars>>
notChain == <<httpVars, scrapeVars, discVars, utilVars>>
notScrape == <<httpVars, chainVars, discVars, utilVars>>
notDisc == <<httpVars, chainVars, scrapeVars, utilVars>>
notUtil == <<httpVars, chainVars, scrapeVars, discVars>>

(***************************************************************************)
(* URLs. A URL is [host, path, frag]; a path is a sequence of pieces whose *)
(* concatenation is the path string ("/blog" \o "/p1" is "/blog/p1"), so   *)
(* that one path starts with another exactly when its pieces do.           *)
(***************************************************************************)

Url(host, path, frag) == [host |-> host, path |-> path, query |-> "", frag |-> frag]

\* The same URL with a query string.
WithQuery(u, query) == [u EXCEPT !.query = query]

\* The seeds: a bare origin, the origin with "/", and a section of the site.
SeedRoot == Url("example.com", <<>>, "")
SeedSlash == Url("example.com", <<"/">>, "")
SeedBlog == Url("example.com", <<"/blog">>, "")

\* A string urlparse rejects with ValueError (such as "http://[abc").
BadUrl == Url("[", <<>>, "")

\* Another one, "https://example.com:80]/blog", in which tldextract still
\* finds the host: it reads the netloc up to the first ":".
BadUrlOfSite == Url("example.com:80]", <<"/blog">>, "")

\* urlparse(url) raises.
UrlRaises(u) == u \in {BadUrl, BadUrlOfSite}

\* A mutant: the fragment is kept.
NormalizeUrlKeepsFragment(u) == u

\* normalize_url: the fragment is removed.
NormalizeUrl(u) == [u EXCEPT !.frag = ""]

\* tldextract's registered_domain of a host ("" when it has none).
RegisteredDomain(host) ==
    CASE host \in {"example.com", "www.example.com", "example.com:80]"} -> "example.com"
      [] host \in {"other.com"} -> "other.com"
      [] OTHER -> ""

\* same_registered_domain
SameRegisteredDomain(a, b) ==
    /\ RegisteredDomain(a.host) = RegisteredDomain(b.host)
    /\ RegisteredDomain(a.host) # ""

\* path.rstrip("/")
RECURSIVE RStripSlash(_)
RStripSlash(path) ==
    IF path # <<>> /\ path[Len(path)] = "/"
    THEN RStripSlash(SubSeq(path, 1, Len(path) - 1))
    ELSE path

\* str.startswith
StartsWith(path, prefix) ==
    /\ Len(prefix) <= Len(path)
    /\ SubSeq(path, 1, Len(prefix)) = prefix

\* A mutant: the path of the seed is not looked at.
WithinSeedScopeAnyPath(candidate, seed) == SameRegisteredDomain(candidate, seed)

\* within_seed_scope
WithinSeedScope(candidate, seed) ==
    IF ~SameRegisteredDomain(candidate, seed) THEN FALSE
    ELSE IF RStripSlash(seed.path) # <<>>
         THEN StartsWith(candidate.path, RStripSlash(seed.path))
         ELSE TRUE

\* within_seed_scope raises ValueError: the registered domains match, and
\* urlparse, which lines 77-78 call unguarded, rejects the seed or the
\* candidate.
ScopeRaises(candidate, seed) ==
    /\ SameRegisteredDomain(candidate, seed)
    /\ (UrlRaises(seed) \/ UrlRaises(candidate))

\* What a call of within_seed_scope comes to.
ScopeOutcome(candidate, seed) ==
    IF ScopeRaises(candidate, seed) THEN "raises"
    ELSE IF WithinSeedScope(candidate, seed) THEN "true"
    ELSE "false"

\* The file extensions gather_discovery_urls filters out.
NonDocumentExts ==
    {".jpg", ".png", ".gif", ".svg", ".pdf", ".zip", ".mp3", ".mp4", ".xml", ".gz"}

\* path.endswith(ext) for one of the extensions
HasNonDocumentExt(u) ==
    u.path # <<>> /\ u.path[Len(u.path)] \in NonDocumentExts

(***************************************************************************)
(* The extraction chain: fetch_and_extract and its three strategies.       *)
(* A page is described by what each strategy makes of it. Lengths are the  *)
(* lengths of the stripped markdown; None is length -1.                    *)
(***************************************************************************)

\* A strategy returned None.
None == -1

\* The length floors of the code, and the lengths on both sides of each.
FallbackFloor == 40
QualityFloor == 80
ShortLens == {FallbackFloor - 1, FallbackFloor, QualityFloor - 1, QualityFloor}

\* trafilatura.extract: None, or a non-empty markdown text.
TrafLens == {None} \cup ShortLens

\* markdownify of the readability summary: any string.
ReadLens == {None, 0} \cup ShortLens

\* markdownify of the content node of the fallback: any string.
NodeLens == {0} \cup ShortLens

\* The pages fetch_and_extract may get: no response, an empty body, or HTML.
\*   traf        the stripped length of trafilatura's markdown, or None
\*   read        the stripped length of the readability markdown, or None
\*                (None: Document() or markdownify raised)
\*   urlSubstack "substack.com" in url
\*   hostSubstack the hostname of url is substack.com or ends in .substack.com
\*   genMarker   'name="generator"' in html and "Substack" in html
\*   paywall     a text node contains "paid subscribers"
\*   node        one of the content-container selectors matches
\*   nodeLen     the stripped length of the markdown of that node
\*   stitle      the title the strategies find ("" is None or empty)
\*   docTitle    the document has a <title> element
HtmlPages ==
    [resp : {"html"}, traf : TrafLens, read : ReadLens,
     urlSubstack : BOOLEAN, hostSubstack : BOOLEAN, genMarker : BOOLEAN,
     paywall : BOOLEAN, node : BOOLEAN, nodeLen : NodeLens,
     stitle : {"", "T"}, docTitle : BOOLEAN]

BlankPage(resp) ==
    [resp |-> resp, traf |-> None, read |-> None,
     urlSubstack |-> FALSE, hostSubstack |-> FALSE, genMarker |-> FALSE,
     paywall |-> FALSE, node |-> FALSE, nodeLen |-> 0,
     stitle |-> "", docTitle |-> FALSE]

NoPage == BlankPage("unfetched")

Pages == {BlankPage("none"), BlankPage("empty")}
             \cup {p \in HtmlPages : (~p.node => p.nodeLen = 0)
                                          /\ (p.hostSubstack => p.urlSubstack)}

\* The values of the local `res`.
NoRes == [by |-> "none", title |-> "", len |-> None]
Res(by, title, len) == [by |-> by, title |-> title, len |-> len]

\* The values fetch_and_extract returns, and "not returned yet".
Pending == [kind |-> "pending", by |-> "none", title |-> "", len |-> None]
NoItem == [kind |-> "none", by |-> "none", title |-> "", len |-> None]

\* extract_with_trafilatura: (title, md_text) if md_text is non-empty.
ExtractWithTrafilatura(page) ==
    IF page.traf = None THEN NoRes ELSE Res("trafilatura", page.stitle, page.traf)

\* extract_with_readability: (title, markdown) if markdown.strip() is non-empty.
ExtractWithReadability(page) ==
    IF page.read = None \/ page.read = 0
    THEN NoRes
    ELSE Res("readability", page.stitle, page.read)

\* A mutant: the fallback has no floor of its own.
FallbackAcceptsAny(len) == len >= 1

\* if markdown and len(markdown.strip()) >= 40
FallbackAccepts(len) == len >= FallbackFloor

\* A mutant: the paywall marker is not looked for.
ExtractSubstackFallbackNoPaywall(page) ==
    IF ~page.node THEN NoRes
    ELSE IF FallbackAccepts(page.nodeLen)
         THEN Res("fallback", page.stitle, page.nodeLen)
         ELSE NoRes

\* extract_substack_fallback
ExtractSubstackFallback(page) ==
    IF page.paywall THEN NoRes
    ELSE IF ~page.node THEN NoRes
    ELSE IF FallbackAccepts(page.nodeLen)
         THEN Res("fallback", page.stitle, page.nodeLen)
         ELSE NoRes

\* "substack.com" in url or ("name=\"generator\"" in html and "Substack" in html)
IsSubstackPage(page) == page.urlSubstack \/ page.genMarker

\* A mutant: the gate only rejects empty content.
BelowFloorOnlyEmpty(len) == len < 1

\* if not markdown or len(markdown.strip()) < 80: return None
BelowFloor(len) == len < QualityFloor

\* "title": title or <title>.string if <title> else url
\* (a conditional expression binds weaker than `or`).
ItemTitle(page, title) ==
    IF page.docTitle
    THEN (IF title # "" THEN title ELSE "doctitle")
    ELSE "url"

Item(page, res) ==
    [kind |-> "item", by |-> res.by, title |-> ItemTitle(page, res.title),
     len |-> res.len]

\* resp = await client.get(url); if not resp or not resp.text: return None
FetchPage(page) ==
    /\ fe_pc = "start"
    /\ fe_page' = page
    /\ IF page.resp = "html"
       THEN fe_pc' = "trafilatura" /\ UNCHANGED fe_out
       ELSE fe_pc' = "done" /\ fe_out' = NoItem
    /\ UNCHANGED <<fe_res, fe_ran>>
    /\ UNCHANGED notChain

\* res = extract_with_trafilatura(url, html)
RunTrafilatura ==
    /\ fe_pc = "trafilatura"
    /\ fe_res' = ExtractWithTrafilatura(fe_page)
    /\ fe_ran' = Append(fe_ran, "trafilatura")
    /\ fe_pc' = "readability"
    /\ UNCHANGED <<fe_page, fe_out>>
    /\ UNCHANGED notChain

\* if not res: res = extract_with_readability(url, html)
RunReadability ==
    /\ fe_pc = "readability"
    /\ IF fe_res = NoRes
       THEN /\ fe_res' = ExtractWithReadability(fe_page)
            /\ fe_ran' = Append(fe_ran, "readability")
       ELSE UNCHANGED <<fe_res, fe_ran>>
    /\ fe_pc' = "fallback"
    /\ UNCHANGED <<fe_page, fe_out>>
    /\ UNCHANGED notChain

\* if not res: if <substack page>: res = extract_substack_fallback(html)
RunFallback ==
    /\ fe_pc = "fallback"
    /\ IF fe_res = NoRes /\ IsSubstackPage(fe_page)
       THEN /\ fe_res' = ExtractSubstackFallback(fe_page)
            /\ fe_ran' = Append(fe_ran, "fallback")
       ELSE UNCHANGED <<fe_res, fe_ran>>
    /\ fe_pc' = "gate"
    /\ UNCHANGED <<fe_page, fe_out>>
    /\ UNCHANGED notChain

\* if not res: return None; the length gate; the item.
Gate ==
    /\ fe_pc = "gate"
    /\ fe_out' = IF fe_res = NoRes THEN NoItem
                 ELSE IF BelowFloor(fe_res.len) THEN NoItem
                 ELSE Item(fe_page, fe_res)
    /\ fe_pc' = "done"
    /\ UNCHANGED <<fe_page, fe_res, fe_ran>>
    /\ UNCHANGED notChain

(***************************************************************************)
(* HttpClient._request                                                     *)
(***************************************************************************)

\* Status codes a server may answer with (2xx, 3xx, 4xx, 5xx and the edges).
StatusCodes == {200, 302, 399, 400, 404, 499, 500, 503}

\* range(3): the attempts of one call.
MaxAttempts == 3

\* 0.5 seconds, in tenths of a second.
BackoffBase == 5

RECURSIVE Pow2(_)
Pow2(n) == IF n = 0 THEN 1 ELSE 2 * Pow2(n - 1)

\* delay = 0.5 * (2 ** attempt)
BackoffDelay(attempt) == BackoffBase * Pow2(attempt)

\* if resp.status_code >= 500: sleep and continue
RetryStatus(status) == status >= 500

\* return resp if resp.status_code < 400 else None
ResultOfStatus(status) == IF status < 400 THEN "response" ELSE "none"

HttpIdle ==
    /\ rq_pc = "idle"
    /\ rq_url = "wellformed"
    /\ rq_attempt = 0
    /\ rq_log = <<>>
    /\ rq_delays = <<>>
    /\ rq_result = "pending"

\* get(url) / head(url): the call enters the loop with attempt = 0.
Request(kind) ==
    /\ rq_pc = "idle"
    /\ rq_pc' = "attempt"
    /\ rq_url' = kind
    /\ UNCHANGED <<rq_attempt, rq_log, rq_delays, rq_result>>
    /\ UNCHANGED notHttp

\* The request is sent and the server answers with a status code.
Respond(status) ==
    /\ rq_pc = "attempt"
    /\ rq_url = "wellformed"
    /\ rq_log' = Append(rq_log, [kind |-> "status", code |-> status])
    /\ IF RetryStatus(status)
       THEN /\ rq_delays' = Append(rq_delays, BackoffDelay(rq_attempt))
            /\ rq_pc' = "sleep"
            /\ UNCHANGED rq_result
       ELSE /\ rq_result' = ResultOfStatus(status)
            /\ rq_pc' = "returned"
            /\ UNCHANGED rq_delays
    /\ UNCHANGED <<rq_url, rq_attempt>>
    /\ UNCHANGED notHttp

\* client.request raises: a timeout or network error on a well-formed URL
\* ("network"), the transport's rejection of a malformed one ("rejected", on
\* every attempt). `except Exception` catches both.
Raise ==
    /\ rq_pc = "attempt"
    /\ rq_log' = Append(rq_log, [kind |-> IF rq_url = "malformed" THEN "rejected"
                                          ELSE "network",
                                 code |-> 0])
    /\ rq_delays' = Append(rq_delays, BackoffDelay(rq_attempt))
    /\ rq_pc' = "sleep"
    /\ UNCHANGED <<rq_url, rq_attempt, rq_result>>
    /\ UNCHANGED notHttp

\* asyncio.sleep(delay) ends: the next iteration, or the loop is exhausted.
Wake ==
    /\ rq_pc = "sleep"
    /\ rq_attempt' = rq_attempt + 1
    /\ IF rq_attempt + 1 < MaxAttempts
       THEN /\ rq_pc' = "attempt"
            /\ UNCHANGED rq_result
       ELSE /\ rq_pc' = "returned"
            /\ rq_result' = "none"
    /\ UNCHANGED <<rq_url, rq_log, rq_delays>>
    /\ UNCHANGED notHttp

\* fetch_and_extract has not been called.
ChainIdle ==
    /\ fe_pc = "idle"
    /\ fe_page = NoPage
    /\ fe_res = NoRes
    /\ fe_ran = <<>>
    /\ fe_out = Pending

(***************************************************************************)
(* The discovery components: expand_sitemaps, extract_feed_entries and     *)
(* onpage_discovery. What a fetch returns is chosen when it is made.       *)
(***************************************************************************)

\* How many sitemap URLs the site has; the first three are the conventional
\* ones expand_sitemaps is called with.
NumSitemaps == 5

\* The most <loc> values in one sitemap, entries in one feed, links on one page.
MaxLocs == 2

\* depth > 3
MaxDepth == 3

\* len(seen) < max_pages * 3
SeenFactor == 3

SitemapNames ==
    <<<<"/sitemap", ".xml">>, <<"/sitemap_index", ".xml">>, <<"/sitemap-index", ".xml">>,
      <<"/sitemap", "-posts">>, <<"/posts", ".xml">>, <<"/sitemaps", "/1">>,
      <<"/sitemaps", "/2">>>>

SitemapUrl(i) == Url("example.com", SitemapNames[i], "")
SitemapUrls == {SitemapUrl(i) : i \in 1..NumSitemaps}

\* SITEMAP_CANDIDATES resolved against the origin.
ConventionalSitemaps == {SitemapUrl(1), SitemapUrl(2), SitemapUrl(3)}

\* Pages of the site and of another site, as a sitemap, a feed or a page may
\* name them.
Post1 == Url("example.com", <<"/blog", "/p1">>, "")
Post1Www == Url("www.example.com", <<"/blog", "/p1">>, "")
Post1Comments == Url("www.example.com", <<"/blog", "/p1">>, "comments")
About == Url("example.com", <<"/about">>, "")
Elsewhere == Url("other.com", <<"/blog", "/x">>, "")

PageRefs == {Post1Comments, About, Elsewhere, BadUrl}

\* Two pages a sitemap may name: "https://example.com/blog/my-sitemap", whose
\* path holds "sitemap" but not "/sitemap", and
\* "https://example.com/blog/feed.xml?page=2", whose path ends in ".xml" while
\* the URL does not.
SitemapGuide == Url("example.com", <<"/blog", "/my", "-sitemap">>, "")
FeedPage2 == WithQuery(Url("example.com", <<"/blog", "/feed", ".xml">>, ""), "?page=2")

\* The seeds of the discovery runs.
Seeds == {SeedRoot, SeedSlash, SeedBlog}

\* Sequences over S of length 0..n.
SeqsUpTo(S, n) == UNION {[1..k -> S] : k \in 0..n}

\* A mutant: only the ending of the URL is looked at.
IsNestedSitemapXmlOnly(u) ==
    u.path # <<>> /\ u.query = "" /\ u.path[Len(u.path)] = ".xml"

\* nu.endswith(".xml") or "/sitemap" in urlparse(nu).path
\* (nu has no fragment, and no query here ends in ".xml", so nu ends in
\* ".xml" when it has no query and its path does; a path piece that starts
\* with "/sitemap" is one of the SitemapNames').
IsNestedSitemap(u) ==
    /\ u.path # <<>>
    /\ \/ u.query = "" /\ u.path[Len(u.path)] = ".xml"
       \/ \E k \in 1..Len(u.path) :
              u.path[k] \in {"/sitemap", "/sitemap_index", "/sitemap-index", "/sitemaps"}

\* The sitemap component is not in use.
SitemapIdle ==
    /\ sm_pc = "idle"
    /\ sm_todo = {}
    /\ sm_visited = {}
    /\ sm_acc = {}
    /\ sm_stack = <<>>
    /\ sm_locs = {}
    /\ sm_fetched = {}
    /\ sm_deepest = -1
    /\ sm_guarded = {}

\* A mutant: the depth of the call is not looked at.
CallFetchesAnyDepth(visited, url, depth) == url \notin visited

\* The call gets past its guard, so it fetches the sitemap.
CallFetches(visited, url, depth) == url \notin visited /\ depth <= MaxDepth

\* The stack after the call _expand_single_sitemap(url, ..., depth) has gone
\* through its guard and its fetch; n is how many values parse_xml_for_loc
\* returns (0 when there is no text). A call in progress is [depth, left]:
\* its depth and how many <loc> values its loop has still to process; the
\* values themselves are chosen as the loop reaches them.
PushCall(stack, visited, url, depth, n) ==
    IF ~CallFetches(visited, url, depth) THEN stack
    ELSE IF n = 0 THEN stack
    ELSE Append(stack, [depth |-> depth, left |-> n])

\* visited after that call.
VisitCall(visited, url, depth) ==
    IF CallFetches(visited, url, depth) THEN visited \cup {url} ELSE visited

\* The fetches after that call: fetch_text(client, sitemap_url) of line 169.
FetchCall(fetched, visited, url, depth) ==
    IF CallFetches(visited, url, depth)
    THEN fetched \cup {[url |-> url,
                        nth |-> 1 + Cardinality({f \in fetched : f.url = url})]}
    ELSE fetched

\* The greatest depth of a fetching call, after that call.
DeepestCall(deepest, visited, url, depth) ==
    IF CallFetches(visited, url, depth) /\ depth > deepest THEN depth ELSE deepest

\* Why calls have returned at line 166, after that call: the URL is in
\* visited, or it is not and the depth is past the cap. Nothing is raised.
GuardCall(guarded, visited, url, depth) ==
    IF url \in visited THEN guarded \cup {"visited"}
    ELSE IF depth > MaxDepth THEN guarded \cup {"depth"}
    ELSE guarded

\* A call whose loop has no <loc> left has returned.
RECURSIVE DropReturned(_)
DropReturned(stack) ==
    IF stack # <<>> /\ stack[Len(stack)].left = 0
    THEN DropReturned(SubSeq(stack, 1, Len(stack) - 1))
    ELSE stack

\* The loop of the innermost call takes its next <loc>.
TakeLoc(stack) ==
    [stack EXCEPT ![Len(stack)].left = stack[Len(stack)].left - 1]

\* expand_sitemaps: the loop takes the next sitemap URL, in any order; the
\* sitemap holds n <loc> values.
ExpandTop(sm, n) ==
    /\ dz_comp = "sitemaps"
    /\ sm_pc = "loop"
    /\ sm_stack = <<>>
    /\ sm \in sm_todo
    /\ (n > 0 => CallFetches(sm_visited, sm, 0))
    /\ sm_todo' = sm_todo \ {sm}
    /\ sm_visited' = VisitCall(sm_visited, sm, 0)
    /\ sm_stack' = PushCall(sm_stack, sm_visited, sm, 0, n)
    /\ sm_fetched' = FetchCall(sm_fetched, sm_visited, sm, 0)
    /\ sm_deepest' = DeepestCall(sm_deepest, sm_visited, sm, 0)
    /\ sm_guarded' = GuardCall(sm_guarded, sm_visited, sm, 0)
    /\ UNCHANGED <<sm_pc, sm_acc, sm_locs>>
    /\ UNCHANGED <<dz_comp, dz_seed, fdVars, opVars>>
    /\ UNCHANGED notDisc

\* _expand_single_sitemap: one turn of `for u in parse_xml_for_loc(text)` on
\* the <loc> value u; n is how many <loc> values the nested sitemap holds,
\* should the turn fetch one.
ExpandLoc(u, n) ==
    /\ dz_comp = "sitemaps"
    /\ sm_pc = "loop"
    /\ sm_stack # <<>>
    /\ (n > 0 => /\ IsNestedSitemap(NormalizeUrl(u))
                 /\ CallFetches(sm_visited, NormalizeUrl(u),
                                sm_stack[Len(sm_stack)].depth + 1))
    /\ LET depth == sm_stack[Len(sm_stack)].depth
           nu == NormalizeUrl(u)
       IN  IF UrlRaises(u)
           THEN /\ sm_pc' = "raised"
                /\ UNCHANGED <<sm_visited, sm_acc, sm_stack, sm_locs, sm_fetched,
                               sm_deepest, sm_guarded>>
           ELSE IF IsNestedSitemap(nu)
           THEN /\ sm_visited' = VisitCall(sm_visited, nu, depth + 1)
                /\ sm_stack' = PushCall(DropReturned(TakeLoc(sm_stack)), sm_visited,
                                        nu, depth + 1, n)
                /\ sm_fetched' = FetchCall(sm_fetched, sm_visited, nu, depth + 1)
                /\ sm_deepest' = DeepestCall(sm_deepest, sm_visited, nu, depth + 1)
                /\ sm_guarded' = GuardCall(sm_guarded, sm_visited, nu, depth + 1)
                /\ UNCHANGED <<sm_pc, sm_acc, sm_locs>>
           ELSE /\ sm_acc' = IF WithinSeedScope(nu, dz_seed)
                             THEN sm_acc \cup {nu} ELSE sm_acc
                /\ sm_stack' = DropReturned(TakeLoc(sm_stack))
                /\ sm_locs' = sm_locs \cup {u}
                /\ UNCHANGED <<sm_pc, sm_visited, sm_fetched, sm_deepest, sm_guarded>>
    /\ UNCHANGED sm_todo
    /\ UNCHANGED <<dz_comp, dz_seed, fdVars, opVars>>
    /\ UNCHANGED notDisc

\* expand_sitemaps returns urls.
ExpandReturn ==
    /\ dz_comp = "sitemaps"
    /\ sm_pc = "loop"
    /\ sm_stack = <<>>
    /\ sm_todo = {}
    /\ sm_pc' = "returned"
    /\ UNCHANGED <<sm_todo, sm_visited, sm_acc, sm_stack, sm_locs, sm_fetched, sm_deepest, sm_guarded>>
    /\ UNCHANGED <<dz_comp, dz_seed, fdVars, opVars>>
    /\ UNCHANGED notDisc

\* An entry without a link: e.get("link") is None or empty.
NoLink == Url("", <<>>, "")

\* The feed component is not in use.
FeedIdle ==
    /\ fd_pc = "idle"
    /\ fd_entries = <<>>
    /\ fd_urls = {}
    /\ fd_links = {}

\* feedparser.parse(feed_url): the links of the entries (none when the feed
\* cannot be fetched or parsed).
FeedParse(entries) ==
    /\ dz_comp = "feed"
    /\ fd_pc = "start"
    /\ fd_entries' = entries
    /\ fd_pc' = "entries"
    /\ UNCHANGED <<fd_urls, fd_links>>
    /\ UNCHANGED <<dz_comp, dz_seed, smVars, opVars>>
    /\ UNCHANGED notDisc

\* One turn of `for e in parsed.entries`; a ValueError out of normalize_url
\* is caught by `except Exception: pass`, which ends the loop.
FeedEntry ==
    /\ dz_comp = "feed"
    /\ fd_pc = "entries"
    /\ fd_entries # <<>>
    /\ LET link == Head(fd_entries)
           nu == NormalizeUrl(link)
       IN  /\ fd_links' = fd_links \cup {link}
           /\ IF link = NoLink
              THEN /\ fd_entries' = Tail(fd_entries)
                   /\ UNCHANGED <<fd_pc, fd_urls>>
              ELSE IF UrlRaises(link)
              THEN /\ fd_pc' = "returned"
                   /\ UNCHANGED <<fd_entries, fd_urls>>
              ELSE /\ fd_urls' = IF WithinSeedScope(nu, dz_seed)
                                 THEN fd_urls \cup {nu} ELSE fd_urls
                   /\ fd_entries' = Tail(fd_entries)
                   /\ UNCHANGED fd_pc
    /\ UNCHANGED <<dz_comp, dz_seed, smVars, opVars>>
    /\ UNCHANGED notDisc

\* return urls
FeedReturn ==
    /\ dz_comp = "feed"
    /\ fd_pc = "entries"
    /\ fd_entries = <<>>
    /\ fd_pc' = "returned"
    /\ UNCHANGED <<fd_entries, fd_urls, fd_links>>
    /\ UNCHANGED <<dz_comp, dz_seed, smVars, opVars>>
    /\ UNCHANGED notDisc

\* BLOG_HINT_PATHS
BlogHintPaths ==
    {"/blog", "/blogs", "/articles", "/article", "/posts", "/post", "/stories",
     "/learn", "/guides", "/guide", "/topics", "/resources"}

\* any(h in path for h in BLOG_HINT_PATHS)
HasBlogHint(u) == \E k \in 1..Len(u.path) : u.path[k] \in BlogHintPaths

\* What the <a href> and <link rel="next"> of a page may point to, resolved
\* against the page's URL.
Post2 == Url("example.com", <<"/blog", "/p2">>, "")
Contact == Url("example.com", <<"/contact">>, "")
Hrefs == PageRefs \cup {Post1, Post2, Contact}

\* The sets of links a page fetched for traversal may hold.
HrefSets ==
    IF op_pc = "loop" THEN {h \in SUBSET Hrefs : Cardinality(h) <= MaxLocs} ELSE {}

\* extract_links_from_html, and the rel=next links: normalized.
LinksOf(hrefs) == {NormalizeUrl(h) : h \in hrefs}

\* The crawl component is not in use.
OnpageIdle ==
    /\ op_pc = "idle"
    /\ op_max_pages = 0
    /\ op_to_visit = <<>>
    /\ op_seen = {}
    /\ op_collected = {}
    /\ op_links = {}
    /\ op_order = <<>>
    /\ op_trav = <<>>
    /\ op_followups = {}

\* while to_visit and len(collected) < max_pages and len(seen) < max_pages * 3
CrawlGoesOn ==
    /\ op_to_visit # <<>>
    /\ Cardinality(op_collected) < op_max_pages
    /\ Cardinality(op_seen) < op_max_pages * SeenFactor

\* A mutant: a URL that was visited is visited again.
SkipsSeenNever(url, seen) == FALSE

\* if url in seen: continue
SkipsSeen(url, seen) == url \in seen

\* One turn of the while loop up to the links of the page: to_visit.pop(0),
\* the seen test, the fetch (got: there is a response with text), and the
\* links found; a href urlparse rejects makes urljoin raise ValueError.
CrawlPop(got, hrefs) ==
    /\ dz_comp = "onpage"
    /\ op_pc = "loop"
    /\ CrawlGoesOn
    /\ op_to_visit' = Tail(op_to_visit)
    /\ IF SkipsSeen(Head(op_to_visit), op_seen)
       THEN UNCHANGED <<op_pc, op_seen, op_links, op_trav>>
       ELSE /\ op_seen' = op_seen \cup {Head(op_to_visit)}
            /\ op_trav' = Append(op_trav, Head(op_to_visit))
            /\ IF ~got
               THEN UNCHANGED <<op_pc, op_links>>
               ELSE IF \E h \in hrefs : UrlRaises(h)
               THEN op_pc' = "raised" /\ UNCHANGED op_links
               ELSE /\ op_links' = LinksOf(hrefs)
                    /\ op_pc' = IF hrefs = {} THEN "loop" ELSE "links"
    /\ UNCHANGED <<op_max_pages, op_collected, op_order, op_followups>>
    /\ UNCHANGED <<dz_comp, dz_seed, smVars, fdVars>>
    /\ UNCHANGED notDisc

\* A mutant: every link of the site is collected.
CollectsLinkAlways(link, article) == TRUE

\* A link that is not skipped is collected if its path has a hint, or if the
\* follow-up fetch returns a page that looks like an article.
CollectsLink(link, article) == HasBlogHint(link) \/ article

\* A mutant: the loop over the links is never left early.
CrawlBreaksNever(collected, max_pages) == FALSE

\* if len(collected) >= max_pages: break
CrawlBreaks(collected, max_pages) == Cardinality(collected) >= max_pages

\* The order of first enqueueing after to_visit.append(link).
Enqueued(order, link) ==
    IF \E k \in DOMAIN order : order[k] = link THEN order ELSE Append(order, link)

\* One turn of `for link in links` (in the set's order); article: the
\* follow-up fetch of a link without a hint returns text that
\* looks_like_article_html (there is no such fetch for a link that is
\* skipped or has a hint).
CrawlLink(link, article) ==
    /\ dz_comp = "onpage"
    /\ op_pc = "links"
    /\ link \in op_links
    /\ IF ~WithinSeedScope(link, dz_seed) \/ link \in op_seen \/ link \in op_collected
       THEN /\ ~article
            /\ op_links' = op_links \ {link}
            /\ UNCHANGED <<op_to_visit, op_collected, op_order, op_followups>>
       ELSE /\ HasBlogHint(link) => ~article
            /\ op_to_visit' = Append(op_to_visit, link)
            /\ op_order' = Enqueued(op_order, link)
            /\ op_followups' = IF HasBlogHint(link) THEN op_followups
                               ELSE op_followups \cup {[link |-> link, article |-> article]}
            /\ op_collected' = IF CollectsLink(link, article)
                               THEN op_collected \cup {link} ELSE op_collected
            /\ op_links' = IF CrawlBreaks(op_collected', op_max_pages)
                           THEN {} ELSE op_links \ {link}
    /\ op_pc' = IF op_links' = {} THEN "loop" ELSE "links"
    /\ UNCHANGED <<op_max_pages, op_seen, op_trav>>
    /\ UNCHANGED <<dz_comp, dz_seed, smVars, fdVars>>
    /\ UNCHANGED notDisc

\* return collected
CrawlReturn ==
    /\ dz_comp = "onpage"
    /\ op_pc = "loop"
    /\ ~CrawlGoesOn
    /\ op_pc' = "returned"
    /\ UNCHANGED <<op_max_pages, op_to_visit, op_seen, op_collected, op_links, op_order,
                   op_trav, op_followups>>
    /\ UNCHANGED <<dz_comp, dz_seed, smVars, fdVars>>
    /\ UNCHANGED notDisc

\* No discovery component is under study.
DiscoveryIdle ==
    /\ dz_comp = "none"
    /\ dz_seed = SeedRoot
    /\ SitemapIdle
    /\ FeedIdle
    /\ OnpageIdle

(***************************************************************************)
(* gather_discovery_urls and scrape. A discovery component is taken by the *)
(* links its sources name (none when the fetch got no response) and what   *)
(* it returns for them: the normalized ones within the seed's scope, or a  *)
(* ValueError out of urlparse when a fetched body holds a URL that         *)
(* urlparse rejects. SpecDiscovery models the components in detail.        *)
(***************************************************************************)

\* How many distinct article URLs the site has.
NumUrls == 3

\* max_pages is drawn from 1..MaxPagesBound, and CoverageDivisor.
MaxPagesBound == 2

\* concurrency is drawn from 1..MaxConcurrency.
MaxConcurrency == 2

\* len(all_urls) < max_pages // 5
CoverageDivisor == 5

PageNames == <<"/p1", "/p2", "/p3", "/p4", "/p5", "/p6">>

ArticleUrl(i) == Url("example.com", <<"/blog", PageNames[i]>>, "")
PdfUrl == Url("example.com", <<"/blog", "/file", ".pdf">>, "")

\* The URLs of the site the discovery components may return.
Discoverable == {ArticleUrl(i) : i \in 1..NumUrls} \cup {PdfUrl}

\* The links the sitemaps, feeds and pages of the site name: those URLs, and
\* the first of them with a fragment.
ArticleComments == Url("example.com", <<"/blog", PageNames[1]>>, "comments")
RawLinks == Discoverable \cup {ArticleComments}

\* The sets of links the sources of the stage scrape is at may name.
LinksAt(stage) == IF sc_pc = stage THEN SUBSET RawLinks ELSE {}

\* What a discovery component returns for the links its source names: each
\* is normalized, then kept if it is within the seed's scope.
Discovered(found, seed) ==
    {NormalizeUrl(u) : u \in {v \in found : WithinSeedScope(NormalizeUrl(v), seed)}}

\* The arguments of scrape: the normalized seed, max_pages, concurrency,
\* show_progress and whether stderr and stdout are terminals.
\* (stderr and stdout are the same terminal, or neither is one).
ScrapeArgs ==
    {a \in [seed : {SeedRoot, SeedBlog},
            max_pages : (1..MaxPagesBound) \cup {CoverageDivisor},
            concurrency : 1..MaxConcurrency,
            show_progress : BOOLEAN, stderr_tty : BOOLEAN, stdout_tty : BOOLEAN] :
        a.stderr_tty = a.stdout_tty}

NoArgs ==
    [seed |-> SeedRoot, max_pages |-> 1, concurrency |-> 1,
     show_progress |-> FALSE, stderr_tty |-> FALSE, stdout_tty |-> FALSE]

Min(a, b) == IF a <= b THEN a ELSE b

\* list(a_set): the elements in some order.
ListsOf(S) ==
    {f \in [1..Cardinality(S) -> S] : \A i, j \in 1..Cardinality(S) : f[i] = f[j] => i = j}

\* A mutant: the list is not cut.
CapListAll(list, n) == list

\* list(candidate_urls)[: max_pages]
CapList(list, n) == SubSeq(list, 1, Min(n, Len(list)))

\* The filter of gather_discovery_urls on the path's extension.
FilterDocuments(urls) == {u \in urls : ~HasNonDocumentExt(u)}

\* A mutant: the quotient is not rounded down.
LowCoverageUnrounded(urls, args) ==
    /\ Cardinality(urls) * CoverageDivisor < args.max_pages
    /\ args.seed.path \in {<<>>, <<"/">>}

\* len(all_urls) < max_pages // 5 and the seed path is "" or "/"
LowCoverage(urls, args) ==
    /\ Cardinality(urls) < args.max_pages \div CoverageDivisor
    /\ args.seed.path \in {<<>>, <<"/">>}

\* The task line 514 creates runs the loop of progress_bar: progress_bar() is
\* created if show_progress and stderr.isatty() or stdout.isatty(), and it
\* returns at once if not show_progress; otherwise the task is sleep(0).
BarLoops(args) ==
    /\ ((args.show_progress /\ args.stderr_tty) \/ args.stdout_tty)
    /\ args.show_progress

\* A mutant: a slot is taken even when none is free.
CanAcquireAlways(value) == value >= 0

\* Semaphore.acquire goes through when the value is positive.
CanAcquire(value) == value > 0

\* A mutant: gather returns when the first task completes.
GatherDoneAny(worker) ==
    \E i \in DOMAIN worker : worker[i] \in {"item", "none"}

\* await asyncio.gather(...): all the worker tasks have completed.
GatherDone(worker) ==
    \A i \in DOMAIN worker : worker[i] \in {"item", "none"}

\* A mutant: a task that produced no item is not counted.
ProgressAfterItemOnly(done, extracted) == IF extracted THEN done + 1 ELSE done

\* progress["done"] += 1: no await separates the read from the write, so the
\* event loop runs no other task between them.
ProgressAfter(done, extracted) == done + 1

\* The loop of lines 519-526 from position i on.
RECURSIVE DedupFrom(_, _, _, _)
DedupFrom(results, i, seen, deduped) ==
    IF i > Len(results) THEN deduped
    ELSE IF results[i].source_url \in seen
         THEN DedupFrom(results, i + 1, seen, deduped)
         ELSE DedupFrom(results, i + 1, seen \cup {results[i].source_url},
                        Append(deduped, results[i]))

\* A mutant: deduped starts as a copy of results instead of empty.
DedupOntoResults(results) == DedupFrom(results, 1, {}, results)

\* Deduplicate by source_url.
Dedup(results) == DedupFrom(results, 1, {}, <<>>)

\* scrape has not been called.
ScrapeIdle ==
    /\ sc_pc = "idle"
    /\ sc_args = NoArgs
    /\ sc_raw = {}
    /\ sc_all_urls = {}
    /\ sc_ncand = 0
    /\ sc_onpage = 0
    /\ sc_list = <<>>
    /\ sc_worker = <<>>
    /\ sc_sem = 0
    /\ sc_results = <<>>
    /\ sc_progress = 0
    /\ sc_bar = [pc |-> "none", shown |-> 0]
    /\ sc_items = <<>>
    /\ sc_closed = 0
    /\ sc_outcome = "running"
    /\ sc_misuse = FALSE

\* scrape(seed, max_pages, concurrency, show_progress) up to the try block.
ScrapeStart(args) ==
    /\ sc_pc = "sitemaps"
    /\ sc_args = args
    /\ sc_raw = {}
    /\ sc_all_urls = {}
    /\ sc_ncand = 0
    /\ sc_onpage = 0
    /\ sc_list = <<>>
    /\ sc_worker = <<>>
    /\ sc_sem = 0
    /\ sc_results = <<>>
    /\ sc_progress = 0
    /\ sc_bar = [pc |-> "none", shown |-> 0]
    /\ sc_items = <<>>
    /\ sc_closed = 0
    /\ sc_outcome = "running"
    /\ sc_misuse = FALSE

\* discover_sitemaps and expand_sitemaps: all_urls.update(from_sitemaps).
GatherSitemaps(found) ==
    /\ sc_pc = "sitemaps"
    /\ sc_raw' = sc_raw \cup found
    /\ sc_all_urls' = sc_all_urls \cup Discovered(found, sc_args.seed)
    /\ sc_pc' = "feeds"
    /\ UNCHANGED <<sc_args, sc_ncand, sc_onpage, sc_list, sc_worker, sc_sem, sc_results,
                   sc_progress, sc_bar, sc_items, sc_closed, sc_outcome, sc_misuse>>
    /\ UNCHANGED notScrape

\* discover_feeds, and extract_feed_entries of every feed.
GatherFeeds(found) ==
    /\ sc_pc = "feeds"
    /\ sc_raw' = sc_raw \cup found
    /\ sc_all_urls' = sc_all_urls \cup Discovered(found, sc_args.seed)
    /\ sc_pc' = "onpage"
    /\ UNCHANGED <<sc_args, sc_ncand, sc_onpage, sc_list, sc_worker, sc_sem, sc_results,
                   sc_progress, sc_bar, sc_items, sc_closed, sc_outcome, sc_misuse>>
    /\ UNCHANGED notScrape

\* onpage_discovery from the seed (at most max_pages URLs), and the test of
\* the low-coverage escape.
GatherOnpage(found) ==
    /\ sc_pc = "onpage"
    /\ Cardinality(Discovered(found, sc_args.seed)) <= sc_args.max_pages
    /\ sc_raw' = sc_raw \cup found
    /\ sc_all_urls' = sc_all_urls \cup Discovered(found, sc_args.seed)
    /\ sc_onpage' = sc_onpage + 1
    /\ sc_pc' = IF LowCoverage(sc_all_urls', sc_args) THEN "broaden" ELSE "filter"
    /\ UNCHANGED <<sc_args, sc_ncand, sc_list, sc_worker, sc_sem, sc_results,
                   sc_progress, sc_bar, sc_items, sc_closed, sc_outcome, sc_misuse>>
    /\ UNCHANGED notScrape

\* onpage_discovery once more, from the bare origin.
GatherBroaden(found) ==
    /\ sc_pc = "broaden"
    /\ Cardinality(Discovered(found, sc_args.seed)) <= sc_args.max_pages
    /\ sc_raw' = sc_raw \cup found
    /\ sc_all_urls' = sc_all_urls \cup Discovered(found, sc_args.seed)
    /\ sc_onpage' = sc_onpage + 1
    /\ sc_pc' = "filter"
    /\ UNCHANGED <<sc_args, sc_ncand, sc_list, sc_worker, sc_sem, sc_results,
                   sc_progress, sc_bar, sc_items, sc_closed, sc_outcome, sc_misuse>>
    /\ UNCHANGED notScrape

\* A body fetched during discovery holds a URL that urlparse rejects:
\* normalize_url / urljoin raise ValueError (lines 152, 173, 212, 260, 296),
\* nothing in gather_discovery_urls or scrape catches it, and the finally
\* clause runs.
DiscoveryRaises ==
    /\ sc_pc \in {"sitemaps", "feeds", "onpage", "broaden"}
    /\ sc_outcome' = "raised"
    /\ sc_pc' = "finally"
    /\ UNCHANGED <<sc_args, sc_raw, sc_all_urls, sc_ncand, sc_onpage, sc_list, sc_worker, sc_sem,
                   sc_results, sc_progress, sc_bar, sc_items, sc_closed, sc_misuse>>
    /\ UNCHANGED notScrape

\* The extension filter, the cut to max_pages, the semaphore, and the tasks:
\* the reporting task and one worker per entry of candidate_list.
CapAndSpawn(list) ==
    /\ sc_pc = "filter"
    /\ list \in ListsOf(FilterDocuments(sc_all_urls))
    /\ sc_list' = CapList(list, sc_args.max_pages)
    /\ sc_worker' = [i \in 1..Len(sc_list') |-> "queued"]
    /\ sc_sem' = sc_args.concurrency
    /\ sc_results' = <<>>
    /\ sc_progress' = 0
    /\ sc_bar' = [pc |-> IF BarLoops(sc_args) THEN "loop" ELSE "done", shown |-> 0]
    /\ sc_pc' = "gather"
    /\ sc_raw' = {}
    /\ sc_all_urls' = {}
    /\ sc_ncand' = Len(list)
    /\ UNCHANGED <<sc_args, sc_onpage, sc_items, sc_closed, sc_outcome, sc_misuse>>
    /\ UNCHANGED notScrape

\* worker: `async with sem`, then fetch_and_extract issues its fetch. The
\* tasks reach the semaphore in the order gather was given them, and the
\* semaphore wakes its waiters first come, first served.
WorkerAcquire(i) ==
    /\ i \in DOMAIN sc_worker
    /\ sc_worker[i] = "queued"
    /\ \A j \in 1..(i - 1) : sc_worker[j] # "queued"
    /\ CanAcquire(sc_sem)
    /\ sc_sem' = sc_sem - 1
    /\ sc_worker' = [sc_worker EXCEPT ![i] = "fetching"]
    /\ sc_misuse' = (sc_misuse \/ sc_closed > 0)
    /\ UNCHANGED <<sc_pc, sc_args, sc_raw, sc_all_urls, sc_ncand, sc_onpage, sc_list, sc_results,
                   sc_progress, sc_bar, sc_items, sc_closed, sc_outcome>>
    /\ UNCHANGED notScrape

\* worker: fetch_and_extract returns an item or None; results.append(item),
\* progress["done"] += 1, and the semaphore is released.
WorkerComplete(i, extracted) ==
    /\ i \in DOMAIN sc_worker
    /\ sc_worker[i] = "fetching"
    /\ sc_results' = IF extracted
                     THEN Append(sc_results, [source_url |-> sc_list[i]])
                     ELSE sc_results
    /\ sc_progress' = ProgressAfter(sc_progress, extracted)
    /\ sc_sem' = sc_sem + 1
    /\ sc_worker' = [sc_worker EXCEPT ![i] = IF extracted THEN "item" ELSE "none"]
    /\ UNCHANGED <<sc_pc, sc_args, sc_raw, sc_all_urls, sc_ncand, sc_onpage, sc_list, sc_bar,
                   sc_items, sc_closed, sc_outcome, sc_misuse>>
    /\ UNCHANGED notScrape

\* progress_bar: one turn of `while progress["done"] < len(candidate_list)`.
BarTick ==
    /\ sc_bar.pc = "loop"
    /\ sc_bar' = IF sc_progress < Len(sc_list)
                 THEN [pc |-> "loop", shown |-> sc_progress]
                 ELSE [pc |-> "done", shown |-> sc_progress]
    /\ UNCHANGED <<sc_pc, sc_args, sc_raw, sc_all_urls, sc_ncand, sc_onpage, sc_list, sc_worker,
                   sc_sem, sc_results, sc_progress, sc_items, sc_closed,
                   sc_outcome, sc_misuse>>
    /\ UNCHANGED notScrape

\* await asyncio.gather(*(worker(u) for u in candidate_list)) returns.
GatherReturns ==
    /\ sc_pc = "gather"
    /\ GatherDone(sc_worker)
    /\ sc_pc' = "await_bar"
    /\ UNCHANGED <<sc_args, sc_raw, sc_all_urls, sc_ncand, sc_onpage, sc_list, sc_worker, sc_sem,
                   sc_results, sc_progress, sc_bar, sc_items, sc_closed,
                   sc_outcome, sc_misuse>>
    /\ UNCHANGED notScrape

\* await bar_task returns; deduplicate by source_url; return the Corpus.
DedupAndReturn ==
    /\ sc_pc = "await_bar"
    /\ sc_bar.pc = "done"
    /\ sc_items' = Dedup(sc_results)
    /\ sc_outcome' = "returned"
    /\ sc_pc' = "finally"
    /\ UNCHANGED <<sc_args, sc_raw, sc_all_urls, sc_ncand, sc_onpage, sc_list, sc_worker, sc_sem,
                   sc_results, sc_progress, sc_bar, sc_closed, sc_misuse>>
    /\ UNCHANGED notScrape

\* finally: await client.close()
Close ==
    /\ sc_pc = "finally"
    /\ sc_closed' = sc_closed + 1
    /\ sc_pc' = "exited"
    /\ UNCHANGED <<sc_args, sc_raw, sc_all_urls, sc_ncand, sc_onpage, sc_list, sc_worker, sc_sem,
                   sc_results, sc_progress, sc_bar, sc_items, sc_outcome, sc_misuse>>
    /\ UNCHANGED notScrape

(***************************************************************************)
(* The utility functions, one call at a time. A text is a sequence of      *)
(* tokens whose concatenation is the string; the tokens are chosen so that *)
(* every keyword and delimiter the code looks for is made of whole tokens. *)
(***************************************************************************)

\* No utility function is under study.
UtilIdle ==
    /\ ut_pc = "idle"
    /\ ut_fn = "none"
    /\ ut_in = <<>>
    /\ ut_out = <<>>

\* kw in text
Contains(text, kw) ==
    \E k \in 0..(Len(text) - Len(kw)) : SubSeq(text, k + 1, k + Len(kw)) = kw

\* str.lower, token by token.
LowerToken(t) ==
    CASE t = "Podcast" -> "podcast"
      [] t = "Transcript" -> "transcript"
      [] t = "Chapter" -> "chapter"
      [] t = "<AUDIO" -> "<audio"
      [] t = "Reddit.com" -> "reddit.com"
      [] OTHER -> t

Lower(text) == [k \in 1..Len(text) |-> LowerToken(text[k])]

\* The argument is None.
NoText == <<"(None)">>

\* (x or "")
OrEmpty(text) == IF text = NoText THEN <<>> ELSE text

ContentTypes ==
    {"linkedin_post", "reddit_comment", "podcast_transcript", "call_transcript",
     "book", "blog"}

\* guess_content_type
GuessContentType(url, html, title) ==
    LET u == Lower(url)
        t == Lower(OrEmpty(title))
        h == Lower(OrEmpty(html))
    IN  IF Contains(u, <<"linkedin.com">>) THEN "linkedin_post"
        ELSE IF Contains(u, <<"reddit.com">>) THEN "reddit_comment"
        ELSE IF \/ Contains(u, <<"podcast">>)
                \/ Contains(t, <<"podcast">>)
                \/ Contains(h, <<"<audio">>) THEN "podcast_transcript"
        ELSE IF Contains(u, <<"transcript">>) \/ Contains(t, <<"transcript">>)
             THEN "call_transcript"
        ELSE IF Contains(u, <<"/", "book">>) \/ Contains(t, <<"chapter">>) THEN "book"
        ELSE "blog"

\* The URLs, bodies and titles guess_content_type is called with here.
TypedHosts ==
    {<<"example.com">>, <<"www.", "linkedin.com">>, <<"old.", "Reddit.com">>,
     <<"book", "ish.com">>}
TypedPaths ==
    {<<>>, <<"/", "p1">>, <<"/", "book", "/", "p1">>, <<"/", "Podcast">>,
     <<"/", "transcript">>}
TypedHtmls == {NoText, <<"<p>">>, <<"<AUDIO", " src>">>}
TypedTitles ==
    {NoText, <<>>, <<"hello">>, <<"Chapter", " 1">>, <<"podcast">>, <<"Transcript">>}

\* The string of an https URL with that host and that path.
UrlText(host, path) == <<"https", ":", "/", "/">> \o host \o path

GuessInputs == [host : TypedHosts, path : TypedPaths, html : TypedHtmls, title : TypedTitles]

\* guess_content_type(url, html, title) is called and returns.
ApplyGuessContentType ==
    /\ ut_pc = "call"
    /\ ut_fn = "guess_content_type"
    /\ ut_out' = <<GuessContentType(UrlText(ut_in.host, ut_in.path), ut_in.html,
                                    ut_in.title)>>
    /\ ut_pc' = "done"
    /\ UNCHANGED <<ut_fn, ut_in>>
    /\ UNCHANGED notUtil

\* The longest text normalize_url is called with here, in tokens.
MaxTextLen == 4

\* The tokens of those texts: two names (one of them the scheme http), the
\* delimiters of a URL, and a bracket.
NameTokens == {"http", "a"}
TextTokens == NameTokens \cup {":", "/", "?", "#", "["}

\* Where the first token of the text that is in toks stands (0: nowhere).
IndexOf(text, toks) ==
    IF \E k \in 1..Len(text) : text[k] \in toks
    THEN CHOOSE k \in 1..Len(text) :
             text[k] \in toks /\ \A j \in 1..(k - 1) : text[j] \notin toks
    ELSE 0

\* text[k:] and text[:k]
From(text, k) == SubSeq(text, k + 1, Len(text))
Upto(text, k) == SubSeq(text, 1, k)

\* urlparse(url): the scheme is what stands before the first ":" if that is
\* a name; the netloc follows "//" up to the next "/", "?" or "#"; a netloc
\* with an unmatched bracket raises ValueError; the fragment follows the
\* first "#" and the query the first "?" of what is left.
UrlParse(text) ==
    LET i == IndexOf(text, {":"})
        hasScheme == i > 1 /\ \A j \in 1..(i - 1) : text[j] \in NameTokens
        scheme == IF hasScheme THEN Upto(text, i - 1) ELSE <<>>
        r1 == IF hasScheme THEN From(text, i) ELSE text
        hasNetloc == StartsWith(r1, <<"/", "/">>)
        r2 == From(r1, 2)
        e == IndexOf(r2, {"/", "?", "#"})
        netloc == IF ~hasNetloc THEN <<>> ELSE IF e = 0 THEN r2 ELSE Upto(r2, e - 1)
        r3 == IF ~hasNetloc THEN r1 ELSE IF e = 0 THEN <<>> ELSE From(r2, e - 1)
        f == IndexOf(r3, {"#"})
        fragment == IF f = 0 THEN <<>> ELSE From(r3, f)
        r4 == IF f = 0 THEN r3 ELSE Upto(r3, f - 1)
        q == IndexOf(r4, {"?"})
        query == IF q = 0 THEN <<>> ELSE From(r4, q)
        path == IF q = 0 THEN r4 ELSE Upto(r4, q - 1)
    IN  [scheme |-> scheme, netloc |-> netloc, path |-> path, query |-> query,
         fragment |-> fragment, raises |-> Contains(netloc, <<"[">>)]

\* urlunparse(parts), as CPython 3.11 has it: "//" and the netloc are written
\* if there is a netloc, or if the scheme is http and the path does not
\* start with "//".
UrlUnparse(parts) ==
    LET url0 == parts.path
        url1 == IF \/ parts.netloc # <<>>
                   \/ parts.scheme = <<"http">> /\ ~StartsWith(url0, <<"/", "/">>)
                THEN <<"/", "/">> \o parts.netloc
                         \o (IF url0 # <<>> /\ url0[1] # "/" THEN <<"/">> ELSE <<>>)
                         \o url0
                ELSE url0
        url2 == IF parts.scheme # <<>> THEN parts.scheme \o <<":">> \o url1 ELSE url1
        url3 == IF parts.query # <<>> THEN url2 \o <<"?">> \o parts.query ELSE url2
    IN  IF parts.fragment # <<>> THEN url3 \o <<"#">> \o parts.fragment ELSE url3

\* The call raised ValueError.
Raised == <<"(ValueError)">>

\* normalize_url on a text
NormalizeText(text) ==
    IF UrlParse(text).raises THEN Raised
    ELSE UrlUnparse([UrlParse(text) EXCEPT !.fragment = <<>>])

NormalizeInputs == SeqsUpTo(TextTokens, MaxTextLen)

\* normalize_url(url) is called and returns or raises; it is then called on
\* what it returned.
ApplyNormalizeUrl ==
    /\ ut_pc = "call"
    /\ ut_fn = "normalize_url"
    /\ Len(ut_out) < 2
    /\ ut_out # <<Raised>>
    /\ ut_out' = Append(ut_out, NormalizeText(IF ut_out = <<>> THEN ut_in ELSE ut_out[1]))
    /\ ut_pc' = IF Len(ut_out') = 2 \/ ut_out' = <<Raised>> THEN "done" ELSE "call"
    /\ UNCHANGED <<ut_fn, ut_in>>
    /\ UNCHANGED notUtil

\* The candidates and seeds within_seed_scope is called with here.
ScopeCandidates ==
    {Post1, Post1Www, Post1Comments, About, Elsewhere, BadUrl, BadUrlOfSite,
     Url("example.com", <<>>, ""), Url("example.com", <<"/blog", "ger">>, ""),
     Url("localhost", <<"/blog">>, "")}
ScopeSeeds ==
    Seeds \cup {Url("example.com", <<"/blog", "/">>, ""), Url("localhost", <<>>, "")}

ScopeInputs == [candidate : ScopeCandidates, seed : ScopeSeeds]

\* within_seed_scope(candidate, seed) is called and returns or raises.
ApplyWithinSeedScope ==
    /\ ut_pc = "call"
    /\ ut_fn = "within_seed_scope"
    /\ ut_out' = <<ScopeOutcome(ut_in.candidate, ut_in.seed)>>
    /\ ut_pc' = "done"
    /\ UNCHANGED <<ut_fn, ut_in>>
    /\ UNCHANGED notUtil

\* expand_sitemaps as a function of the order of list(sitemap_urls) and of
\* the responses: graph[url] is the list parse_xml_for_loc makes of the text
\* fetched from url, in document order (<<>> when there is no text or no
\* <loc>). The state of a call is [visited, acc].
GraphNodes == {SitemapUrl(i) : i \in 1..(MaxDepth + 3)}

RECURSIVE ExpandSingleSitemap(_, _, _, _, _)
RECURSIVE ExpandLocs(_, _, _, _, _)

\* _expand_single_sitemap(client, sitemap_url, seed_url, visited, acc, depth)
ExpandSingleSitemap(graph, sitemap_url, seed, st, depth) ==
    IF sitemap_url \in st.visited \/ depth > MaxDepth THEN st
    ELSE ExpandLocs(graph, graph[sitemap_url], seed,
                    [st EXCEPT !.visited = @ \cup {sitemap_url}], depth)

\* for u in parse_xml_for_loc(text): ...
ExpandLocs(graph, locs, seed, st, depth) ==
    IF locs = <<>> THEN st
    ELSE LET nu == NormalizeUrl(Head(locs))
             after == IF IsNestedSitemap(nu)
                      THEN ExpandSingleSitemap(graph, nu, seed, st, depth + 1)
                      ELSE IF WithinSeedScope(nu, seed)
                           THEN [st EXCEPT !.acc = @ \cup {nu}]
                           ELSE st
         IN  ExpandLocs(graph, Tail(locs), seed, after, depth)

RECURSIVE ExpandList(_, _, _, _)

\* for sm in list(sitemap_urls): await _expand_single_sitemap(...)
ExpandList(graph, list, seed, st) ==
    IF list = <<>> THEN st
    ELSE ExpandList(graph, Tail(list), seed,
                    ExpandSingleSitemap(graph, Head(list), seed, st, 0))

\* expand_sitemaps, list being list(sitemap_urls)
ExpandSitemaps(graph, list, seed) ==
    ExpandList(graph, list, seed, [visited |-> {}, acc |-> {}]).acc

\* The sites here: some of the sitemaps form a chain, each naming the next
\* and the last naming a page; the others cannot be fetched.
SitemapChains ==
    {c \in SeqsUpTo(GraphNodes, MaxDepth + 2) :
        c # <<>> /\ \A i, j \in DOMAIN c : c[i] = c[j] => i = j}

ChainGraph(c) ==
    [n \in GraphNodes |->
        IF \E k \in DOMAIN c : c[k] = n
        THEN LET k == CHOOSE k \in DOMAIN c : c[k] = n
             IN  IF k < Len(c) THEN <<c[k + 1]>> ELSE <<Post1Comments>>
        ELSE <<>>]

ExpandInputs ==
    [graph : {ChainGraph(c) : c \in SitemapChains},
     list : ListsOf(ConventionalSitemaps)]

\* expand_sitemaps(client, sitemap_urls, seed_url) is called and returns.
ApplyExpandSitemaps ==
    /\ ut_pc = "call"
    /\ ut_fn = "expand_sitemaps"
    /\ ut_out' = <<ExpandSitemaps(ut_in.graph, ut_in.list, SeedRoot)>>
    /\ ut_pc' = "done"
    /\ UNCHANGED <<ut_fn, ut_in>>
    /\ UNCHANGED notUtil

\* substack_test.py, line 108:
\* "title": title or (<title>.string if <title> else url)
PostTitle(page, title) ==
    IF title # "" THEN title
    ELSE IF page.docTitle THEN "doctitle"
    ELSE "url"

\* fetch_post of substack_test.py; its three strategies (lines 39-92) are
\* those of scraper.py, and fetch_text gives "" where client.get gives no
\* response.
FetchPost(page) ==
    IF page.resp # "html" THEN NoItem
    ELSE LET first == ExtractWithTrafilatura(page)
             second == IF first # NoRes THEN first ELSE ExtractWithReadability(page)
             res == IF second # NoRes THEN second ELSE ExtractSubstackFallback(page)
         IN  IF res = NoRes THEN NoItem
             ELSE [kind |-> "item", by |-> res.by, title |-> PostTitle(page, res.title),
                   len |-> res.len]

\* fetch_post is called on the page fetch_and_extract was called on.
RunFetchPost ==
    /\ fe_pc = "done"
    /\ ut_pc = "idle"
    /\ ut_fn' = "fetch_post"
    /\ ut_in' = fe_page
    /\ ut_out' = <<FetchPost(fe_page)>>
    /\ ut_pc' = "done"
    /\ UNCHANGED notUtil

(***************************************************************************)
(* The specifications.                                                     *)
(***************************************************************************)

InitHttp == HttpIdle /\ ChainIdle /\ ScrapeIdle /\ DiscoveryIdle /\ UtilIdle

NextHttp ==
    \/ \E kind \in {"wellformed", "malformed"} : Request(kind)
    \/ \E status \in StatusCodes : Respond(status)
    \/ Raise
    \/ Wake

SpecHttp == InitHttp /\ [][NextHttp]_vars

InitChain ==
    /\ HttpIdle
    /\ UtilIdle
    /\ ScrapeIdle
    /\ DiscoveryIdle
    /\ fe_pc = "start"
    /\ fe_page = NoPage
    /\ fe_res = NoRes
    /\ fe_ran = <<>>
    /\ fe_out = Pending

NextChain ==
    \/ \E page \in Pages : FetchPage(page)
    \/ RunTrafilatura
    \/ RunReadability
    \/ RunFallback
    \/ Gate
    \/ RunFetchPost

SpecChain == InitChain /\ [][NextChain]_vars

InitScrape ==
    /\ HttpIdle
    /\ UtilIdle
    /\ ChainIdle
    /\ DiscoveryIdle
    /\ \E args \in ScrapeArgs : ScrapeStart(args)

NextScrape ==
    \/ \E found \in LinksAt("sitemaps") : GatherSitemaps(found)
    \/ \E found \in LinksAt("feeds") : GatherFeeds(found)
    \/ \E found \in LinksAt("onpage") : GatherOnpage(found)
    \/ \E found \in LinksAt("broaden") : GatherBroaden(found)
    \/ DiscoveryRaises
    \/ \E list \in ListsOf(FilterDocuments(sc_all_urls)) : CapAndSpawn(list)
    \/ \E i \in DOMAIN sc_worker : WorkerAcquire(i)
    \/ \E i \in DOMAIN sc_worker, extracted \in BOOLEAN : WorkerComplete(i, extracted)
    \/ BarTick
    \/ GatherReturns
    \/ DedupAndReturn
    \/ Close

SpecScrape == InitScrape /\ [][NextScrape]_vars

\* The event loop runs every task that is ready: a worker that can take a
\* slot, a fetch in flight (every fetch ends, by the client's timeout), and
\* the reporting task when its sleep is over.
ScrapeFairness ==
    /\ WF_vars(\E i \in DOMAIN sc_worker : WorkerAcquire(i))
    /\ WF_vars(\E i \in DOMAIN sc_worker, extracted \in BOOLEAN : WorkerComplete(i, extracted))
    /\ WF_vars(BarTick)

\* scrape at line 515, the tasks just created: discovery has returned n
\* candidates, taken here in the order of their names.
InitWorkers ==
    /\ HttpIdle
    /\ UtilIdle
    /\ ChainIdle
    /\ DiscoveryIdle
    /\ \E args \in ScrapeArgs, n \in 0..NumUrls :
          /\ sc_pc = "gather"
          /\ sc_args = args
          /\ sc_raw = {}
          /\ sc_all_urls = {}
          /\ sc_ncand = n
          /\ sc_onpage = 1
          /\ sc_list = CapList([i \in 1..n |-> ArticleUrl(i)], args.max_pages)
          /\ sc_worker = [i \in 1..Len(sc_list) |-> "queued"]
          /\ sc_sem = args.concurrency
          /\ sc_results = <<>>
          /\ sc_progress = 0
          /\ sc_bar = [pc |-> IF BarLoops(args) THEN "loop" ELSE "done", shown |-> 0]
          /\ sc_items = <<>>
          /\ sc_closed = 0
          /\ sc_outcome = "running"
          /\ sc_misuse = FALSE

NextWorkers ==
    \/ \E i \in DOMAIN sc_worker : WorkerAcquire(i)
    \/ \E i \in DOMAIN sc_worker, extracted \in BOOLEAN : WorkerComplete(i, extracted)
    \/ BarTick
    \/ GatherReturns
    \/ DedupAndReturn
    \/ Close

\* One utility function is called on one input.
InitUtil ==
    /\ HttpIdle
    /\ ChainIdle
    /\ ScrapeIdle
    /\ DiscoveryIdle
    /\ ut_pc = "call"
    /\ ut_out = <<>>
    /\ \/ ut_fn = "guess_content_type" /\ ut_in \in GuessInputs
       \/ ut_fn = "normalize_url" /\ ut_in \in NormalizeInputs
       \/ ut_fn = "within_seed_scope" /\ ut_in \in ScopeInputs
       \/ ut_fn = "expand_sitemaps" /\ ut_in \in ExpandInputs

NextUtil ==
    \/ ApplyGuessContentType
    \/ ApplyNormalizeUrl
    \/ ApplyWithinSeedScope
    \/ ApplyExpandSitemaps

SpecUtil == InitUtil /\ [][NextUtil]_vars

\* The tasks of scrape under the event loop's scheduling.
SpecWorkers == InitWorkers /\ [][NextWorkers]_vars /\ ScrapeFairness

\* expand_sitemaps(client, sitemap_urls, seed_url) is called.
InitSitemaps ==
    /\ dz_comp = "sitemaps"
    /\ dz_seed \in Seeds
    /\ sm_pc = "loop"
    /\ sm_todo = ConventionalSitemaps
    /\ sm_visited = {}
    /\ sm_acc = {}
    /\ sm_stack = <<>>
    /\ sm_locs = {}
    /\ sm_fetched = {}
    /\ sm_deepest = -1
    /\ sm_guarded = {}
    /\ FeedIdle
    /\ OnpageIdle

\* extract_feed_entries(client, feed_url, seed_url) is called.
InitFeed ==
    /\ dz_comp = "feed"
    /\ dz_seed \in Seeds
    /\ fd_pc = "start"
    /\ fd_entries = <<>>
    /\ fd_urls = {}
    /\ fd_links = {}
    /\ SitemapIdle
    /\ OnpageIdle

\* onpage_discovery(client, seed_url, max_pages) is called.
InitOnpage ==
    /\ dz_comp = "onpage"
    /\ dz_seed \in Seeds
    /\ op_pc = "loop"
    /\ op_max_pages \in 1..MaxPagesBound
    /\ op_to_visit = <<dz_seed>>
    /\ op_seen = {}
    /\ op_collected = {}
    /\ op_links = {}
    /\ op_order = <<dz_seed>>
    /\ op_trav = <<>>
    /\ op_followups = {}
    /\ SitemapIdle
    /\ FeedIdle

InitDiscovery ==
    /\ HttpIdle
    /\ UtilIdle
    /\ ChainIdle
    /\ ScrapeIdle
    /\ (InitSitemaps \/ InitFeed \/ InitOnpage)

\* The sitemaps here name each other and the pages; SpecSitemaps has the
\* deeper nestings.
NextDiscovery ==
    \/ \E sm \in sm_todo, n \in 0..MaxLocs : ExpandTop(sm, n)
    \/ \E u \in ConventionalSitemaps \cup PageRefs, n \in 0..MaxLocs : ExpandLoc(u, n)
    \/ ExpandReturn
    \/ \E entries \in SeqsUpTo(PageRefs \cup {NoLink}, MaxLocs) : FeedParse(entries)
    \/ FeedEntry
    \/ FeedReturn
    \/ \E got \in BOOLEAN, hrefs \in HrefSets : CrawlPop(got, hrefs)
    \/ \E link \in op_links, article \in BOOLEAN : CrawlLink(link, article)
    \/ CrawlReturn

SpecDiscovery == InitDiscovery /\ [][NextDiscovery]_vars

\* The <loc> values here are the sitemap URLs, one page, and one string
\* urlparse rejects.
NextSitemaps ==
    \/ \E sm \in sm_todo, n \in 0..MaxLocs : ExpandTop(sm, n)
    \/ \E u \in SitemapUrls \cup {About, BadUrl}, n \in 0..MaxLocs : ExpandLoc(u, n)
    \/ ExpandReturn

\* The <loc> values here are sitemaps and pages whose names resemble theirs.
NextSitemapPages ==
    \/ \E sm \in sm_todo, n \in 0..MaxLocs : ExpandTop(sm, n)
    \/ \E u \in SitemapUrls \cup {BadUrl, SitemapGuide, FeedPage2}, n \in 0..MaxLocs :
          ExpandLoc(u, n)
    \/ ExpandReturn

NextCrawl ==
    \/ \E got \in BOOLEAN, hrefs \in HrefSets : CrawlPop(got, hrefs)
    \/ \E link \in op_links, article \in BOOLEAN : CrawlLink(link, article)
    \/ CrawlReturn

\* onpage_discovery called on one seed.
InitCrawl ==
    /\ HttpIdle
    /\ ChainIdle
    /\ ScrapeIdle
    /\ UtilIdle
    /\ InitOnpage
    /\ dz_seed = SeedRoot

\* onpage_discovery alone, every step of which ends: it is one coroutine,
\* and each of its fetches ends by the client's timeout.
SpecCrawl ==
    /\ InitCrawl
    /\ [][NextCrawl]_vars
    /\ WF_vars(NextCrawl)

\* expand_sitemaps called for one seed.
InitNested ==
    /\ HttpIdle
    /\ ChainIdle
    /\ ScrapeIdle
    /\ UtilIdle
    /\ InitSitemaps
    /\ dz_seed = SeedRoot

\* expand_sitemaps alone, every step of which ends: it is one coroutine, and
\* each of its fetches ends by the client's timeout.
SpecSitemaps ==
    /\ InitNested
    /\ [][NextSitemaps]_vars
    /\ WF_vars(NextSitemaps)

\* expand_sitemaps called for one seed, on such sitemaps.
SpecSitemapPages == InitNested /\ [][NextSitemapPages]_vars

\* C1: the items of the Corpus that scrape returns hold no two items with the
\* same source_url, whatever was discovered and in whatever order the workers
\* completed.
CorpusItemsUnique ==
    sc_outcome = "returned"
        => \A i, j \in 1..Len(sc_items) :
              sc_items[i].source_url = sc_items[j].source_url => i = j

\* A Corpus of several items, the workers having completed out of list order.
CorpusOfSeveralItems ==
    /\ sc_pc = "exited"
    /\ sc_outcome = "returned"
    /\ Len(sc_items) >= 2
    /\ sc_items[1].source_url = sc_list[2]

\* The worker tasks that have started on their fetch.
Started == {i \in DOMAIN sc_worker : sc_worker[i] # "queued"}

\* C2: scrape starts at most max_pages extraction tasks, and the Corpus has at
\* most max_pages items, also when more than max_pages candidates were
\* discovered.
CappedAtMaxPages ==
    /\ Len(sc_list) <= sc_args.max_pages
    /\ Cardinality(DOMAIN sc_worker) <= sc_args.max_pages
    /\ Cardinality(Started) <= sc_args.max_pages
    /\ Len(sc_results) <= sc_args.max_pages
    /\ Len(sc_items) <= sc_args.max_pages

\* More candidates than max_pages were discovered, and the run returned
\* max_pages items.
MoreCandidatesThanMaxPages ==
    /\ sc_pc = "exited"
    /\ sc_ncand > sc_args.max_pages
    /\ Len(sc_items) = sc_args.max_pages

\* The list positions whose extraction produced an item.
Extracted == {i \in DOMAIN sc_worker : sc_worker[i] = "item"}

\* C8: whatever the fetches of discovery and extraction come to, scrape ends
\* by returning a Corpus, and the Corpus holds the items of exactly the
\* candidates whose extraction succeeded.
ScrapeReturnsCorpus ==
    sc_pc = "exited"
        => /\ sc_outcome = "returned"
           /\ {sc_items[k].source_url : k \in 1..Len(sc_items)}
                  = {sc_list[i] : i \in Extracted}

\* The worker tasks inside fetch_and_extract.
InFlight == {i \in DOMAIN sc_worker : sc_worker[i] = "fetching"}

\* C9: at most `concurrency` worker tasks are inside fetch_and_extract at any
\* time.
InFlightBounded == Cardinality(InFlight) <= sc_args.concurrency

\* Every slot is taken and a further task waits for one.
SlotsFullAndOneWaiting ==
    /\ Cardinality(InFlight) = sc_args.concurrency
    /\ \E i \in DOMAIN sc_worker : sc_worker[i] = "queued"

\* C10: the client is closed exactly once on every path out of scrape, and
\* from the moment it is closed no extraction task is in flight or waiting,
\* so none issues a fetch on the closed client.
ClosedOnceAfterTasks ==
    /\ sc_closed <= 1
    /\ (sc_pc = "exited" => sc_closed = 1)
    /\ (sc_pc # "exited" => sc_closed = 0)
    /\ (sc_closed >= 1 => \A i \in DOMAIN sc_worker : sc_worker[i] \in {"item", "none"})
    /\ ~sc_misuse

\* The client has been closed after a run of several extraction tasks.
ClosedAfterSeveralTasks ==
    /\ sc_pc = "exited"
    /\ sc_closed = 1
    /\ Len(sc_list) >= 2
    /\ sc_progress = Len(sc_list)

\* u is in scope of the seed of the run: a host of the seed's registered
\* domain (example.com) and, for the seed with the path /blog, a path that
\* starts with /blog.
InSeedScope(u) ==
    /\ u.host \in {"example.com", "www.example.com"}
    /\ (dz_seed = SeedBlog => (Len(u.path) >= 1 /\ u.path[1] = "/blog"))

\* C3: every URL that sitemap expansion, feed-entry extraction and the on-page
\* crawl return is in scope of the seed; of the page URLs a sitemap or a feed
\* lists, exactly the in-scope ones (fragment removed) are returned.
DiscoveredInScope ==
    /\ \A u \in sm_acc \cup fd_urls \cup op_collected : InSeedScope(u)
    /\ sm_acc = {Url(v.host, v.path, "") : v \in {w \in sm_locs : InSeedScope(w)}}
    /\ (fd_pc = "returned" /\ BadUrl \notin fd_links
          => fd_urls = {Url(v.host, v.path, "") : v \in {w \in fd_links : InSeedScope(w)}})

\* A sitemap run under the seed /blog that listed an in-scope post and a URL
\* of another domain has returned the post alone.
SitemapKeepsOnlyInScope ==
    /\ dz_comp = "sitemaps"
    /\ dz_seed = SeedBlog
    /\ sm_pc = "returned"
    /\ sm_locs = {Post1Comments, Elsewhere}
    /\ sm_acc = {Post1Www}

\* C4: fetch_and_extract never returns a result whose stripped content is
\* shorter than the floor of the strategy that produced it: 80 characters for
\* the generic and the readability strategy, 40 for the platform fallback; the
\* content of a returned item is never empty.
ResultMeetsFloor ==
    fe_out.kind = "item"
        => /\ fe_out.len > 0
           /\ (fe_out.by \in {"trafilatura", "readability"} => fe_out.len >= 80)
           /\ (fe_out.by = "fallback" => fe_out.len >= 40)

\* An item has been returned whose content is exactly at the floor.
ItemAtFloor ==
    /\ fe_pc = "done"
    /\ fe_out.kind = "item"
    /\ fe_out.len = 80

\* The first of the generic and the readability strategy whose output is
\* non-empty and meets the floor of 80 characters, "none" if neither does.
FirstMeetingFloor(page) ==
    IF page.traf >= 80 THEN "trafilatura"
    ELSE IF page.read >= 80 THEN "readability"
    ELSE "none"

\* C5: the result of the chain is the output of the first strategy, in the
\* order generic, readability, platform fallback, whose output is non-empty and
\* meets the quality floor; an earlier strategy's output below the floor makes
\* the chain go on to the next strategy. Stated for the pages on which the
\* generic or the readability strategy meets the floor.
ChainYieldsFirstMeetingFloor ==
    (fe_pc = "done" /\ fe_page.resp = "html"
        /\ FirstMeetingFloor(fe_page) # "none")
        => /\ fe_out.kind = "item"
           /\ fe_out.by = FirstMeetingFloor(fe_page)

\* An attempt that ended in a timeout or network exception, or in a response
\* with a status >= 500.
Transient(entry) == entry.kind = "network" \/ entry.code >= 500

\* C6: one get/head call sends at most 3 requests; a retry follows only a
\* timeout or network exception or a status >= 500; the delay before retry 1
\* is 0.5 s and before retry 2 is 1.0 s; a status < 400 is returned at once;
\* after the third failed attempt the call returns "no response" (it never
\* raises).
RetryPolicy ==
    /\ Len(rq_log) <= 3
    /\ \A k \in 2..Len(rq_log) : Transient(rq_log[k - 1])
    /\ (Len(rq_log) >= 2 => rq_delays[1] = 5)
    /\ (Len(rq_log) >= 3 => rq_delays[2] = 10)
    /\ \A k \in 1..Len(rq_log) :
          (rq_log[k].kind = "status" /\ rq_log[k].code < 400)
              => /\ k = Len(rq_log)
                 /\ rq_pc = "returned"
                 /\ rq_result = "response"
    /\ (rq_pc = "returned" => rq_result \in {"response", "none"})
    /\ (rq_pc = "returned" /\ Len(rq_log) = 3 /\ ~(rq_log[3].kind = "status" /\ rq_log[3].code < 500)
          => rq_result = "none")
    /\ (rq_pc \in {"attempt", "sleep"} => rq_result = "pending")

\* A 4xx answer.
ClientError(entry) == entry.kind = "status" /\ entry.code \in 400..499

\* C7: a permanent failure (a 4xx answer to the first request, or a malformed
\* URL) ends the call with "no response" after exactly one attempt and no
\* backoff delay.
PermanentFailureNotRetried ==
    (rq_pc = "returned" /\ (rq_url = "malformed" \/ ClientError(rq_log[1])))
        => /\ Len(rq_log) = 1
           /\ rq_delays = <<>>
           /\ rq_result = "none"

\* The extraction tasks that have completed.
Completed == {i \in DOMAIN sc_worker : sc_worker[i] \in {"item", "none"}}

\* C11: the progress counter loses no update: it equals the number of
\* extraction tasks that have completed (with or without an item), it never
\* exceeds the number of candidates, it equals that number once all tasks have
\* completed, and from then on the reporting loop comes to its end.
ProgressCountsEveryTask ==
    /\ [](/\ sc_progress = Cardinality(Completed)
          /\ sc_progress <= Len(sc_list)
          /\ sc_bar.shown <= sc_progress
          /\ (GatherDone(sc_worker) => sc_progress = Len(sc_list)))
    /\ ((sc_pc = "gather" /\ GatherDone(sc_worker)) ~> sc_bar.pc = "done")

\* All the tasks have completed, one of them without an item, and the
\* reporting loop, which had drawn a partial count, has ended.
ReportingLoopEndedAfterMixedTasks ==
    /\ Len(sc_list) >= 2
    /\ GatherDone(sc_worker)
    /\ \E i, j \in DOMAIN sc_worker : sc_worker[i] = "none" /\ sc_worker[j] = "item"
    /\ BarLoops(sc_args)
    /\ sc_bar = [pc |-> "done", shown |-> Len(sc_list)]
    /\ sc_progress = Len(sc_list)

\* C12: during one expand_sitemaps call, whatever the sitemaps name (each
\* other included), no sitemap URL is fetched a second time, no call deeper
\* than 3 fetches, the step on which a call returns for its depth raises
\* nothing, and the call comes to an end.
SitemapExpansionBounded ==
    /\ [](\A f \in sm_fetched : f.nth = 1)
    /\ [](sm_deepest <= 3)
    /\ [][("depth" \in sm_guarded' /\ "depth" \notin sm_guarded) => sm_pc' = "loop"]_vars
    /\ <>(sm_pc \in {"returned", "raised"})

\* The call has returned after fetching four sitemaps nested down to depth 3,
\* dropping one for its depth and one because it was visited already.
SitemapsNestedToTheCap ==
    /\ sm_pc = "returned"
    /\ sm_deepest = 3
    /\ Cardinality(sm_fetched) >= 4
    /\ sm_guarded = {"visited", "depth"}

\* The content type the rules give, the first that applies winning: the URL
\* names linkedin.com; it names reddit.com; "podcast" is in the URL or the
\* title, or the HTML has an audio tag; "transcript" is in the URL or the
\* title; the path of the URL contains "/book" or the title contains
\* "chapter"; none does.
ReferenceContentType(in) ==
    LET u == Lower(UrlText(in.host, in.path))
        t == Lower(OrEmpty(in.title))
        h == Lower(OrEmpty(in.html))
    IN  IF Contains(u, <<"linkedin.com">>) THEN "linkedin_post"
        ELSE IF Contains(u, <<"reddit.com">>) THEN "reddit_comment"
        ELSE IF \/ Contains(u, <<"podcast">>)
                \/ Contains(t, <<"podcast">>)
                \/ Contains(h, <<"<audio">>) THEN "podcast_transcript"
        ELSE IF Contains(u, <<"transcript">>) \/ Contains(t, <<"transcript">>)
             THEN "call_transcript"
        ELSE IF Contains(Lower(in.path), <<"/", "book">>) \/ Contains(t, <<"chapter">>)
             THEN "book"
        ELSE "blog"

\* C13: guess_content_type returns one of the six content types for every
\* (url, html, title), and that type is the one the reference rules give.
ContentTypeIsReference ==
    (ut_fn = "guess_content_type" /\ ut_pc = "done")
        => /\ ut_out[1] \in ContentTypes
           /\ ut_out[1] = ReferenceContentType(ut_in)

\* C14: normalize_url applied to what normalize_url returned returns the
\* same URL.
NormalizeIdempotent ==
    (ut_fn = "normalize_url" /\ Len(ut_out) = 2) => ut_out[2] = ut_out[1]

\* The registered domains are equal and, when the seed's path without its
\* trailing slashes is not empty, the candidate's path starts with it.
ReferenceInScope(candidate, seed) ==
    /\ RegisteredDomain(candidate.host) = RegisteredDomain(seed.host)
    /\ (RStripSlash(seed.path) # <<>>
          => StartsWith(candidate.path, RStripSlash(seed.path)))

\* C17: within_seed_scope never raises; it returns false for a malformed
\* candidate, and for any other it returns true exactly when the registered
\* domains are equal and the candidate's path starts with the seed's path.
ScopeIsReference ==
    (ut_fn = "within_seed_scope" /\ ut_pc = "done")
        => /\ ut_out[1] # "raises"
           /\ IF UrlRaises(ut_in.candidate)
              THEN ut_out[1] = "false"
              ELSE (ut_out[1] = "true") = ReferenceInScope(ut_in.candidate, ut_in.seed)

\* A newsletter-platform page with the paywall marker, on which trafilatura
\* and readability return nothing.
PaywalledNewsletterPage(page) ==
    /\ page.resp = "html"
    /\ IsSubstackPage(page)
    /\ page.paywall
    /\ ExtractWithTrafilatura(page) = NoRes
    /\ ExtractWithReadability(page) = NoRes

\* C15: for a newsletter-platform page with the paywall marker on which the
\* generic and readability strategies return nothing, fetch_and_extract
\* returns no item, whatever content containers the page has.
PaywallYieldsNothing ==
    (fe_pc = "done" /\ PaywalledNewsletterPage(fe_page)) => fe_out = NoItem

\* Such a page, with a content container long enough to pass both floors,
\* has gone through the three strategies and yielded nothing.
PaywalledPageWithContainerDropped ==
    /\ fe_pc = "done"
    /\ PaywalledNewsletterPage(fe_page)
    /\ fe_page.node
    /\ fe_page.nodeLen >= QualityFloor
    /\ fe_ran = <<"trafilatura", "readability", "fallback">>
    /\ fe_out = NoItem

\* Two URLs that differ in their fragment at most.
SameButFragment(u, v) == u.host = v.host /\ u.path = v.path

\* C16: no candidate of gather_discovery_urls carries a fragment, and links
\* that differ only in their fragment, whichever sources named them, make one
\* candidate, one extraction task and at most one item of the Corpus.
FragmentsStripped ==
    /\ \A u \in sc_all_urls : u.frag = ""
    /\ \A u \in sc_raw :
          Cardinality({c \in sc_all_urls : SameButFragment(c, u)}) <= 1
    /\ \A i \in DOMAIN sc_list : sc_list[i].frag = ""
    /\ \A i, j \in DOMAIN sc_list : SameButFragment(sc_list[i], sc_list[j]) => i = j
    /\ \A i, j \in DOMAIN sc_items :
          SameButFragment(sc_items[i].source_url, sc_items[j].source_url) => i = j

\* The sources have named a page with and without a fragment, and discovery
\* has one candidate for the two.
FragmentVariantsMerged ==
    /\ sc_pc = "filter"
    /\ sc_onpage >= 1
    /\ {ArticleUrl(1), ArticleComments} \subseteq sc_raw
    /\ sc_all_urls = {ArticleUrl(1)}

\* C18: in every state of the on-page crawl, and so in the set it returns,
\* collected holds at most max_pages URLs.
CollectedWithinMaxPages == Cardinality(op_collected) <= op_max_pages

\* The crawl returned with max_pages URLs collected while pages were still
\* waiting on to_visit.
CrawlStoppedAtMaxPages ==
    /\ op_pc = "returned"
    /\ op_max_pages >= 2
    /\ Cardinality(op_collected) = op_max_pages
    /\ op_to_visit # <<>>

\* C19: seen never holds more than 3 * max_pages URLs; no URL is taken off
\* to_visit and fetched twice; the pages are fetched in the order in which
\* each was first put on to_visit; and the crawl ends.
CrawlBoundedFifo ==
    /\ [](Cardinality(op_seen) <= 3 * op_max_pages)
    /\ [](\A i, j \in DOMAIN op_trav : op_trav[i] = op_trav[j] => i = j)
    /\ [](/\ Len(op_trav) <= Len(op_order)
          /\ \A i \in DOMAIN op_trav : op_trav[i] = op_order[i])
    /\ <>(op_pc \in {"returned", "raised"})

\* The crawl returned at the ceiling of seen, after a page that was put on
\* to_visit twice had been fetched once.
CrawlEndedAtSeenCeiling ==
    /\ op_pc = "returned"
    /\ Cardinality(op_seen) = 3 * op_max_pages
    /\ Len(op_trav) = 3 * op_max_pages
    /\ op_to_visit # <<>>
    /\ \E k \in DOMAIN op_to_visit : op_to_visit[k] \in op_seen

\* C20: every collected URL has a hint in its path or passed a follow-up
\* fetch that looked like an article; no link with a hint is fetched in a
\* follow-up; a link whose follow-up fetches all failed or did not look like
\* an article was put on to_visit and is not collected.
TwoTierCollection ==
    /\ \A u \in op_collected :
          HasBlogHint(u) \/ [link |-> u, article |-> TRUE] \in op_followups
    /\ \A f \in op_followups :
          /\ ~HasBlogHint(f.link)
          /\ WithinSeedScope(f.link, dz_seed)
          /\ \E k \in DOMAIN op_order : op_order[k] = f.link
          /\ [link |-> f.link, article |-> TRUE] \notin op_followups
                => f.link \notin op_collected

\* A link with a hint was collected with no follow-up fetch, one without a
\* hint was collected after a follow-up fetch that looked like an article,
\* and one whose follow-up fetch did not is on to_visit and not collected.
BothTiersActed ==
    /\ \E u \in op_collected :
          HasBlogHint(u) /\ \A f \in op_followups : f.link # u
    /\ \E u \in op_collected :
          ~HasBlogHint(u) /\ [link |-> u, article |-> TRUE] \in op_followups
    /\ \E f \in op_followups :
          /\ ~f.article
          /\ f.link \notin op_collected
          /\ \E k \in DOMAIN op_to_visit : op_to_visit[k] = f.link

\* C21: a link that was already visited, collected or put on to_visit is
\* skipped: whenever a link is appended to to_visit (and, having no hint,
\* fetched in a follow-up), it had never been on to_visit before.
LinkEnqueuedOnce ==
    [][Len(op_to_visit') > Len(op_to_visit)
         => \A k \in DOMAIN op_order : op_order[k] # op_to_visit'[Len(op_to_visit')]]_vars

\* The union of the sitemap, feed and on-page URLs has fewer members than
\* max_pages divided by 5 and rounded down, and the seed has no subpath.
EscapeDue ==
    /\ 5 * (Cardinality(sc_all_urls) + 1) <= sc_args.max_pages
    /\ sc_args.seed \in {SeedRoot, SeedSlash}

\* C22: the on-page crawl runs a second time if and only if, after the first,
\* the URLs found are fewer than max_pages // 5 and the seed path is empty or
\* "/"; it never runs more than twice, and what the second crawl finds is
\* united with the candidates.
BroadensOnceWhenLow ==
    /\ [](sc_onpage <= 2)
    /\ [](sc_pc = "broaden" => sc_onpage = 1 /\ EscapeDue)
    /\ [](sc_pc = "filter" /\ sc_onpage = 1 => ~EscapeDue)
    /\ [](sc_pc = "filter" => sc_all_urls = Discovered(sc_raw, sc_args.seed))
    /\ [][sc_onpage' = 2 /\ sc_onpage = 1
            => sc_pc = "broaden" /\ sc_pc' = "filter" /\ sc_all_urls \subseteq sc_all_urls']_vars

\* The second crawl ran and brought candidates the first three sources had
\* not found.
BroadenedCrawlAddedUrls ==
    /\ sc_pc = "filter"
    /\ sc_onpage = 2
    /\ sc_all_urls # {}

\* The path of v holds "sitemap" or ends in ".xml".
PathNamesSitemap(v) ==
    /\ v.path # <<>>
    /\ \/ v.path[Len(v.path)] = ".xml"
       \/ \E k \in 1..Len(v.path) :
              v.path[k] \in {"/sitemap", "/sitemap_index", "/sitemap-index", "/sitemaps",
                             "-sitemap"}

\* The path of v holds "/sitemap", or v as a whole ends in ".xml".
UrlNamesSitemap(v) ==
    \/ v.query = "" /\ v.path # <<>> /\ v.path[Len(v.path)] = ".xml"
    \/ \E k \in 1..Len(v.path) :
          v.path[k] \in {"/sitemap", "/sitemap_index", "/sitemap-index", "/sitemaps"}

\* C23, as claimed: no <loc> value whose path contains "sitemap" or ends in
\* ".xml" is in the result of expand_sitemaps.
NoSitemapPathInResult == \A v \in sm_acc : ~PathNamesSitemap(v)

\* C23, amended: no <loc> value whose path contains "/sitemap", or whose
\* normalized URL ends in ".xml", is in the result of expand_sitemaps, and
\* none is handled as a page: each is expanded as a nested sitemap, within
\* the guards of the recursion.
NoSitemapUrlInResult ==
    /\ \A v \in sm_acc : ~UrlNamesSitemap(v)
    /\ \A u \in sm_locs : ~UrlNamesSitemap(NormalizeUrl(u))
    /\ \A f \in sm_fetched : f.url \in ConventionalSitemaps \/ UrlNamesSitemap(f.url)

\* expand_sitemaps returned after it expanded a nested sitemap whose name
\* does not end in ".xml" and added a page whose path holds "sitemap".
NestedExpandedAndPageAdded ==
    /\ sm_pc = "returned"
    /\ \E f \in sm_fetched :
          f.url \notin ConventionalSitemaps /\ f.url.path[Len(f.url.path)] # ".xml"
    /\ SitemapGuide \in sm_acc

\* C24: when the generic and the readability strategy returned nothing and
\* the platform fallback, having run, returned content of at least 40
\* characters, fetch_and_extract returns an item.
FallbackContentAccepted ==
    (/\ fe_pc = "done"
     /\ fe_ran = <<"trafilatura", "readability", "fallback">>
     /\ ~fe_page.paywall
     /\ fe_page.node
     /\ fe_page.nodeLen >= 40)
        => fe_out.kind = "item"

\* C25: the readability strategy is run only if the generic strategy
\* returned nothing; the platform fallback is run only if both returned
\* nothing and the page is a newsletter-platform page by the suffix of its
\* hostname or by a generator marker; on any other page it is never run.
FallbackOnlyOnNewsletterPages ==
    /\ (\E k \in DOMAIN fe_ran : fe_ran[k] = "readability") => fe_page.traf = None
    /\ (\E k \in DOMAIN fe_ran : fe_ran[k] = "fallback")
          => /\ fe_page.traf = None
             /\ fe_page.read \in {None, 0}
             /\ fe_page.hostSubstack \/ fe_page.genMarker

\* C26: the title of the item is the title the accepting strategy returned
\* when that is non-empty, whether or not the document has a <title>; the
\* document's <title> when the strategy returned none; the URL when there is
\* no <title> either.
StrategyTitleWins ==
    fe_out.kind = "item"
        => fe_out.title = IF fe_page.stitle # "" THEN fe_page.stitle
                          ELSE IF fe_page.docTitle THEN "doctitle"
                          ELSE "url"

\* C27: for a fixed graph of sitemaps, the set expand_sitemaps returns is the
\* same for every order in which the sitemap URLs are processed.
ExpansionOrderFree ==
    (ut_fn = "expand_sitemaps" /\ ut_pc = "done")
        => \A l \in ListsOf(ConventionalSitemaps) :
              ExpandSitemaps(ut_in.graph, l, SeedRoot) = ut_out[1]

\* C28: every item fetch_post emits has non-empty stripped content of at
\* least the minimum floor of 40 characters, and fetch_post returns an item
\* for a page if and only if fetch_and_extract does.
PostGateIsPipelineGate ==
    (fe_pc = "done" /\ ut_fn = "fetch_post" /\ ut_pc = "done")
        => /\ ut_out[1].kind = "item" => ut_out[1].len >= 40
           /\ ut_out[1].kind = "item" <=> fe_out.kind = "item"

====
